---- MODULE Spec2Model ----
(***************************************************************************)
(* The sustained-run event detector of src/detector.py,                   *)
(* detect_events_for_axis, as a state machine: one step per iteration of   *)
(* its for loop, one step for the tail flush.  Samples are integers; the   *)
(* code's floats are only compared, subtracted and copied.                 *)
(***************************************************************************)
EXTENDS Integers, Sequences, FiniteSets

\* ------------------------------------------------------------------ bounds
MaxLen == 4          \* longest time/deviation sequence of Spec
MaxAnyLen == 3       \* longest sequence of SpecAnyArgs (lengths drawn independently)

\* the input domains
TimeGaps == 0 .. 1               \* time_s[i+1] - time_s[i] in Spec (time-ordered readings)
TimeVals == 0 .. 1               \* values of time_s[i] in SpecAnyArgs (any order)
DevVals == 0 .. 3                \* values of deviation[i]  (max(0, residual): never negative)
Thresholds == 1 .. 3             \* values of cfg.minC and cfg.maxC
Durations == {0 - 1, 0, 1, 2}    \* values of cfg.T
AxisNames == {"axis_1"}          \* axis_name argument

\* ------------------------------------------------------------------ state
VARIABLES
    time_s,       \* argument: the time sequence
    deviation,    \* argument: the deviation sequence
    axis_name,    \* argument
    cfg,          \* argument: RuleConfig
    i,            \* the for loop's next index (0-based, as in the code)
    in_alert, in_error, alert_start, error_start,   \* the locals of lines 33-36
    events,       \* the list being built
    flushed,      \* history: the (kind, start_idx, end_idx) of every flush_event call
    pc,           \* "loop" | "returned" | "IndexError"
    previous      \* the lists returned by earlier calls on the same arguments

\* The pipeline of src/run_pipeline.py, main(): what it keeps on disk and in the
\* database between runs, and what one run holds in memory.
VARIABLES
    ppc,              \* main()'s position; "idle" while only the detector is looked at
    use_db,           \* bool(DB_HOST and DB_NAME)
    csv_file,         \* data/training/...csv: <<>> when missing, else <<its rows>>
    raw_table,        \* RAW_TABLE
    stream_table,     \* STREAM_TABLE
    thresholds_file,  \* THRESHOLDS_PATH: <<>> when missing, else <<its content>>
    train,            \* main's locals ...
    scalers,          \* <<>> before step 2, else <<the statistics>>
    train_z, test, test_z, streamed, streamed_z,
    stream_i,         \* stream_dataframe_to_db's loop index
    stream_chunk,     \* stream_dataframe_to_db's chunk_size argument
    inserts,          \* history: the chunks this call of it passed to insert_rows
    thr,              \* <<>> before step 7, else <<the thresholds object>>
    fits,             \* history: the datasets fit_train_scalers was called on, this run
    zcalls,           \* history: the (dataset, statistics) of each transform_zscore call
    discoveries,      \* history: how often thresholds were computed, over all runs
    run_cfgs,         \* history: the RuleConfig each run scored with
    runs              \* the number of the run under way

pvars == <<ppc, use_db, csv_file, raw_table, stream_table, thresholds_file, train,
           scalers, train_z, test, test_z, streamed, streamed_z, stream_i,
           stream_chunk, inserts, thr, fits, zcalls, discoveries, run_cfgs, runs>>

dvars == <<time_s, deviation, axis_name, cfg, i, in_alert, in_error,
           alert_start, error_start, events, flushed, pc, previous>>

vars == <<dvars, pvars>>

\* main() is not running
PipelineIdle ==
    /\ ppc = "idle"
    /\ use_db = FALSE
    /\ csv_file = <<>>
    /\ raw_table = <<>>
    /\ stream_table = <<>>
    /\ thresholds_file = <<>>
    /\ train = <<>>
    /\ scalers = <<>>
    /\ train_z = <<>>
    /\ test = <<>>
    /\ test_z = <<>>
    /\ streamed = <<>>
    /\ streamed_z = <<>>
    /\ stream_i = 0
    /\ stream_chunk = 1
    /\ inserts = <<>>
    /\ thr = <<>>
    /\ fits = <<>>
    /\ zcalls = <<>>
    /\ discoveries = 0
    /\ run_cfgs = <<>>
    /\ runs = 0

\* Python's None for alert_start / error_start (indices are 0-based, so -1 is no index)
None == 0 - 1

RuleConfig == [minC : Thresholds, maxC : Thresholds, T : Durations]

\* the configurations the data model allows: minC <= maxC, T >= 0
ValidConfig(c) == c.minC <= c.maxC /\ c.T >= 0

\* seq[k] with Python's 0-based k
At(seq, k) == seq[k + 1]

\* max(...) of a non-empty collection
RECURSIVE MaxOf(_)
MaxOf(S) ==
    LET x == CHOOSE y \in S : TRUE
    IN  IF S = {x} THEN x
        ELSE LET m == MaxOf(S \ {x}) IN IF x > m THEN x ELSE m

\* seq[a:b] : a Python slice clamps its end to the length
Slice(seq, a, b) == {At(seq, k) : k \in {j \in a .. (b - 1) : j < Len(seq)}}

\* the duration test of lines 50, 64, 73, 79
SustainedFlipped(t, start_i, end_i, T) == At(t, end_i) - At(t, start_i) <= T
Sustained(t, start_i, end_i, T) == At(t, end_i) - At(t, start_i) >= T

\* the membership tests of lines 42 and 56
ErrorMemberLoose(d, c) == d > c.maxC
ErrorMember(d, c) == d >= c.maxC
AlertMemberNoUpper(d, c) == c.minC <= d
AlertMember(d, c) == c.minC <= d /\ d < c.maxC

\* slice of max_deviation, line 22
RunSliceThroughClosing(dev, start_idx, end_idx) == Slice(dev, start_idx, end_idx + 2)
RunSlice(dev, start_idx, end_idx) == Slice(dev, start_idx, end_idx + 1)

\* the dict flush_event appends, lines 19-31
EventDict(t, dev, axis, kind, start_idx, end_idx, threshold) ==
    LET start_time == At(t, start_idx)
        end_time == At(t, end_idx)
    IN  [axis_name |-> axis,
         event_type |-> kind,
         start_time |-> start_time,
         end_time |-> end_time,
         duration_s |-> end_time - start_time,
         threshold |-> threshold,
         max_deviation |-> MaxOf(RunSlice(dev, start_idx, end_idx))]

\* The locals of one call, as a record (L), so that the loop body is one operator.
Locals0 ==
    [in_alert |-> FALSE, in_error |-> FALSE, alert_start |-> None,
     error_start |-> None, events |-> <<>>, flushed |-> <<>>]

flush_eventPrepend(t, dev, axis, L, kind, start_idx, end_idx, threshold) ==
    [L EXCEPT !.events = <<EventDict(t, dev, axis, kind, start_idx, end_idx, threshold)>> \o @,
              !.flushed = <<[kind |-> kind, start_idx |-> start_idx, end_idx |-> end_idx]>> \o @]
flush_event(t, dev, axis, L, kind, start_idx, end_idx, threshold) ==
    [L EXCEPT !.events = Append(@, EventDict(t, dev, axis, kind, start_idx, end_idx, threshold)),
              !.flushed = Append(@, [kind |-> kind, start_idx |-> start_idx, end_idx |-> end_idx])]

\* lines 41-53
ErrorTrackNoReset(t, dev, axis, c, L, k) ==
    LET d == At(dev, k) IN
    IF ErrorMember(d, c)
    THEN IF ~L.in_error THEN [L EXCEPT !.in_error = TRUE, !.error_start = k] ELSE L
    ELSE IF L.in_error
         THEN IF Sustained(t, L.error_start, k - 1, c.T)
              THEN [flush_event(t, dev, axis, L, "ERROR", L.error_start, k - 1, c.maxC)
                       EXCEPT !.in_error = FALSE, !.error_start = None]
              ELSE L
         ELSE L
ErrorTrack(t, dev, axis, c, L, k) ==
    LET d == At(dev, k) IN
    IF ErrorMember(d, c)
    THEN IF ~L.in_error THEN [L EXCEPT !.in_error = TRUE, !.error_start = k] ELSE L
    ELSE IF L.in_error
         THEN LET F == IF Sustained(t, L.error_start, k - 1, c.T)
                       THEN flush_event(t, dev, axis, L, "ERROR", L.error_start, k - 1, c.maxC)
                       ELSE L
              IN  [F EXCEPT !.in_error = FALSE, !.error_start = None]
         ELSE L

\* lines 55-67
AlertTrack(t, dev, axis, c, L, k) ==
    LET d == At(dev, k) IN
    IF AlertMember(d, c)
    THEN IF ~L.in_alert THEN [L EXCEPT !.in_alert = TRUE, !.alert_start = k] ELSE L
    ELSE IF L.in_alert
         THEN LET F == IF Sustained(t, L.alert_start, k - 1, c.T)
                       THEN flush_event(t, dev, axis, L, "ALERT", L.alert_start, k - 1, c.minC)
                       ELSE L
              IN  [F EXCEPT !.in_alert = FALSE, !.alert_start = None]
         ELSE L

\* one iteration of the for loop, lines 39-67
LoopBody(t, dev, axis, c, L, k) ==
    AlertTrack(t, dev, axis, c, ErrorTrack(t, dev, axis, c, L, k), k)

\* lines 69-80
FinalizeTailDropped(t, dev, axis, c, L) == L
FinalizeTailUnchecked(t, dev, axis, c, L) ==
    LET end_i == Len(t) - 1
        E == IF L.in_error
             THEN flush_event(t, dev, axis, L, "ERROR", L.error_start, end_i, c.maxC)
             ELSE L
    IN  IF E.in_alert
        THEN flush_event(t, dev, axis, E, "ALERT", E.alert_start, end_i, c.minC)
        ELSE E
FinalizeTail(t, dev, axis, c, L) ==
    LET end_i == Len(t) - 1
        E == IF L.in_error /\ Sustained(t, L.error_start, end_i, c.T)
             THEN flush_event(t, dev, axis, L, "ERROR", L.error_start, end_i, c.maxC)
             ELSE L
    IN  IF E.in_alert /\ Sustained(t, E.alert_start, end_i, c.T)
        THEN flush_event(t, dev, axis, E, "ALERT", E.alert_start, end_i, c.minC)
        ELSE E

\* the whole call, lines 9-82: the outcome and, when it returns, the locals at return
RECURSIVE RunFrom(_, _, _, _, _, _)
RunFrom(t, dev, axis, c, L, k) ==
    IF k >= Len(t) THEN [outcome |-> "returned", L |-> FinalizeTail(t, dev, axis, c, L)]
    ELSE IF k >= Len(dev) THEN [outcome |-> "IndexError", L |-> L]
    ELSE RunFrom(t, dev, axis, c, LoopBody(t, dev, axis, c, L, k), k + 1)

detect_events_for_axis(t, dev, axis, c) == RunFrom(t, dev, axis, c, Locals0, 0)

\* ------------------------------------------------------------------ the state machine
Locals ==
    [in_alert |-> in_alert, in_error |-> in_error, alert_start |-> alert_start,
     error_start |-> error_start, events |-> events, flushed |-> flushed]

SetLocals(L) ==
    /\ in_alert' = L.in_alert
    /\ in_error' = L.in_error
    /\ alert_start' = L.alert_start
    /\ error_start' = L.error_start
    /\ events' = L.events
    /\ flushed' = L.flushed

SeqsOf(S, n) == [1 .. n -> S]
Range(f) == {f[k] : k \in DOMAIN f}

InitLocals ==
    /\ axis_name \in AxisNames
    /\ i = 0
    /\ in_alert = FALSE
    /\ in_error = FALSE
    /\ alert_start = None
    /\ error_start = None
    /\ events = <<>>
    /\ flushed = <<>>
    /\ pc = "loop"
    /\ previous = <<>>
    /\ PipelineIdle

\* the running sum of the gaps: a non-decreasing time sequence starting at 0
RECURSIVE SumTo(_, _)
SumTo(g, k) == IF k = 0 THEN 0 ELSE SumTo(g, k - 1) + g[k]
TimeFromGaps(g, n) == [k \in 1 .. n |-> SumTo(g, k - 1)]

\* a call as the pipeline's data model describes it: equal lengths, readings in
\* time order, a valid RuleConfig
Init ==
    /\ \E n \in 0 .. MaxLen :
          /\ \E g \in SeqsOf(TimeGaps, IF n = 0 THEN 0 ELSE n - 1) : time_s = TimeFromGaps(g, n)
          /\ deviation \in SeqsOf(DevVals, n)
    /\ cfg \in {c \in RuleConfig : ValidConfig(c)}
    /\ InitLocals

\* any call: lengths drawn independently, time in any order, any RuleConfig
InitAnyArgs ==
    /\ \E n \in 0 .. MaxAnyLen : time_s \in SeqsOf(TimeVals, n)
    /\ \E m \in 0 .. MaxAnyLen : deviation \in SeqsOf(DevVals, m)
    /\ cfg \in RuleConfig
    /\ InitLocals

\* one iteration of `for i in range(len(time_s))`; deviation[i] raises IndexError
\* when i is past the end of deviation
ForBodyOffByOne ==
    /\ pc = "loop"
    /\ i < Len(time_s)
    /\ IF i + 1 >= Len(deviation)
       THEN /\ pc' = "IndexError"
            /\ UNCHANGED <<i, in_alert, in_error, alert_start, error_start, events, flushed>>
       ELSE /\ SetLocals(LoopBody(time_s, deviation, axis_name, cfg, Locals, i))
            /\ i' = i + 1
            /\ pc' = "loop"
    /\ UNCHANGED <<time_s, deviation, axis_name, cfg, previous, pvars>>
ForBody ==
    /\ pc = "loop"
    /\ i < Len(time_s)
    /\ IF i >= Len(deviation)
       THEN /\ pc' = "IndexError"
            /\ UNCHANGED <<i, in_alert, in_error, alert_start, error_start, events, flushed>>
       ELSE /\ SetLocals(LoopBody(time_s, deviation, axis_name, cfg, Locals, i))
            /\ i' = i + 1
            /\ pc' = "loop"
    /\ UNCHANGED <<time_s, deviation, axis_name, cfg, previous, pvars>>

\* the loop is exhausted: tail flush and return
Finalize ==
    /\ pc = "loop"
    /\ i >= Len(time_s)
    /\ SetLocals(FinalizeTail(time_s, deviation, axis_name, cfg, Locals))
    /\ pc' = "returned"
    /\ UNCHANGED <<time_s, deviation, axis_name, cfg, i, previous, pvars>>

\* the caller calls again with the same arguments: the body starts over, lines 16
\* and 33-36 build a new list and new flags
CallAgainSharedList ==
    /\ pc = "returned"
    /\ previous = <<>>
    /\ previous' = Append(previous, events)
    /\ i' = 0
    /\ in_alert' = FALSE
    /\ in_error' = FALSE
    /\ alert_start' = None
    /\ error_start' = None
    /\ pc' = "loop"
    /\ UNCHANGED <<time_s, deviation, axis_name, cfg, events, flushed, pvars>>
CallAgain ==
    /\ pc = "returned"
    /\ previous = <<>>
    /\ previous' = Append(previous, events)
    /\ i' = 0
    /\ SetLocals(Locals0)
    /\ pc' = "loop"
    /\ UNCHANGED <<time_s, deviation, axis_name, cfg, pvars>>

Next == ForBody \/ Finalize
NextTwice == ForBody \/ Finalize \/ CallAgain

Spec == Init /\ [][Next]_vars
SpecAnyArgs == InitAnyArgs /\ [][Next]_vars
\* any call, made twice
SpecTwice == InitAnyArgs /\ [][NextTwice]_vars

\* ------------------------------------------------------------------ the pipeline
\* A dataset is a sequence of rows [time_s, axis_1, z]: one axis column stands for the
\* eight, which main() treats alike, and z lists the (mean, std) pairs the reading
\* has been standardised with, so that a reading x with z = <<[mean, std]>> is the
\* number (x - mean) / std.  Table rows carry the BIGSERIAL id as well.
MaxTrain == 2        \* most rows of a training CSV
MaxRuns == 2         \* runs of main() against the same files and database
n_rows == 3          \* generate_synthetic(..., n_rows=3000, ...), shortened
chunk_size == 2      \* stream_dataframe_to_db(..., chunk_size=80, ...), shortened
AxisVals == 0 .. 1   \* axis readings of a training CSV
ResidualVals == 0 .. 2

\* the training CSVs: readings at times 0, 1, ...
Datasets ==
    UNION {{[k \in 1 .. n |-> [time_s |-> k - 1, axis_1 |-> x[k], z |-> <<>>]] :
               x \in SeqsOf(AxisVals, n)} :
           n \in 0 .. MaxTrain}
CsvFiles == {<<>>} \cup {<<d>> : d \in Datasets}

\* df[cols]: a row without the columns the table added
Cols(row) == [time_s |-> row.time_s, axis_1 |-> row.axis_1, z |-> row.z]
Project(rows) == [k \in 1 .. Len(rows) |-> Cols(rows[k])]

\* db.insert_rows: the rows of df[cols], appended with the next ids
insert_rows(table, df) ==
    table \o [k \in 1 .. Len(df) |->
                [id |-> Len(table) + k, time_s |-> df[k].time_s, axis_1 |-> df[k].axis_1,
                 z |-> df[k].z]]

\* db.read_training_data / read_stream_data: SELECT * ... ORDER BY id
read_table(table) == table

\* pandas' NaN, and a number num/den
NaN == [nan |-> TRUE, num |-> 0, den |-> 1]
Ratio(a, b) == [nan |-> FALSE, num |-> a, den |-> b]

RECURSIVE SumSeq(_)
SumSeq(xs) == IF xs = <<>> THEN 0 ELSE Head(xs) + SumSeq(Tail(xs))
MinOf(S) == CHOOSE m \in S : \A x \in S : m <= x

\* preprocessing.fit_train_scalers.  mean is sum/n; std is kept as its square, the
\* population variance (n*sum(x^2) - sum(x)^2) / n^2, with eps set when .replace(0, 1e-9)
\* applies.  On an empty frame pandas returns NaN for all four.
fit_train_scalers(df) ==
    LET xs == [k \in 1 .. Len(df) |-> df[k].axis_1]
        n == Len(df)
        sum == SumSeq(xs)
        sumsq == SumSeq([k \in 1 .. n |-> xs[k] * xs[k]])
        var == n * sumsq - sum * sum
    IN  IF n = 0
        THEN [min |-> NaN, max |-> NaN, mean |-> NaN,
              std |-> [nan |-> TRUE, num |-> 0, den |-> 1, eps |-> FALSE]]
        ELSE [min |-> Ratio(MinOf(Range(xs)), 1),
              max |-> Ratio(MaxOf(Range(xs)), 1),
              mean |-> Ratio(sum, n),
              std |-> [nan |-> FALSE, num |-> var, den |-> n * n, eps |-> var = 0]]

\* line 32: out[c] = (out[c] - mu) / sd, for one row
ZScore(row, stats) ==
    [row EXCEPT !.z = Append(@, [mean |-> stats.mean, std |-> stats.std])]

\* preprocessing.transform_zscore: what the call returns (out) and what it leaves of
\* its arguments (df, scalers); `out = df.copy()` keeps df as it was
transform_zscoreInPlace(df, stats) ==
    LET out == [k \in 1 .. Len(df) |-> ZScore(df[k], stats)]
    IN  [out |-> out, df |-> out, scalers |-> stats]
transform_zscore(df, stats) ==
    [out |-> [k \in 1 .. Len(df) |-> ZScore(df[k], stats)],
     df |-> df,
     scalers |-> stats]

\* the values of xs in ascending order
Sorted(xs) ==
    CHOOSE q \in SeqsOf(Range(xs), Len(xs)) :
        /\ \A k \in 1 .. (Len(xs) - 1) : q[k] <= q[k + 1]
        /\ \A v \in Range(xs) :
             Cardinality({k \in 1 .. Len(xs) : q[k] = v})
                 = Cardinality({k \in 1 .. Len(xs) : xs[k] = v})

\* np.median of the time steps (the steps met here are equal, so the half is exact)
Median(xs) ==
    LET n == Len(xs)
        sorted == Sorted(xs)
    IN  IF n % 2 = 1 THEN sorted[(n + 1) \div 2]
        ELSE (sorted[n \div 2] + sorted[n \div 2 + 1]) \div 2

\* synthetic_generator.generate_synthetic on a non-empty frame: n_rows readings from
\* t_min on, one step apart.  The k-th value is mu + sd * (the k-th standard normal
\* draw of the generator seeded with seed=7), kept as its parts; the bumps that
\* inject_anomalies adds afterwards change values only and are part of the value.
generate_synthetic(df) ==
    LET t_min == MinOf({df[k].time_s : k \in 1 .. Len(df)})
        steps == [k \in 1 .. (Len(df) - 1) |-> df[k + 1].time_s - df[k].time_s]
        step == IF Len(steps) > 0 THEN Median(steps) ELSE 1
        s == fit_train_scalers(Project(df))
    IN  [k \in 1 .. n_rows |->
           [time_s |-> t_min + (k - 1) * step,
            axis_1 |-> [draw |-> k, mu |-> s.mean,
                        sd |-> [num |-> s.std.num, den |-> s.std.den,
                                floor |-> ~(s.std.num > 0)]],
            z |-> <<>>]]

\* pandas Series.quantile(q/100), linear interpolation, in hundredths
Quantile100(xs, q) ==
    LET sorted == Sorted(xs)
        n == Len(xs)
        pos == (n - 1) * q
        lo == pos \div 100
        hi == IF lo + 1 < n THEN lo + 1 ELSE lo
    IN  100 * sorted[lo + 1] + (sorted[hi + 1] - sorted[lo + 1]) * (pos % 100)

DiscoveredT == 10

\* all_pos, the pooled positive residuals of a run (lines 78-81): they come out of
\* the regression on the standardised training data and are drawn here
MaxResiduals == 2
PooledResiduals == UNION {SeqsOf(ResidualVals, n) : n \in 1 .. MaxResiduals}

\* lines 82-86: the thresholds record, in hundredths
discover(all_pos) ==
    [MinC |-> Quantile100(all_pos, 95), MaxC |-> Quantile100(all_pos, 99),
     T |-> 100 * DiscoveredT, method |-> "p95/p99 positive residuals"]

\* line 90: the RuleConfig of a thresholds record
RuleConfigOf(t) == [minC |-> t.MinC, maxC |-> t.MaxC, T |-> t.T]

\* a thresholds file written before the first run (config.py line 34: by the notebook)
NotebookThresholds == [MinC |-> 150, MaxC |-> 250, T |-> 100 * DiscoveredT, method |-> "notebook"]

RunLocals0 ==
    /\ train' = <<>>
    /\ scalers' = <<>>
    /\ train_z' = <<>>
    /\ test' = <<>>
    /\ test_z' = <<>>
    /\ streamed' = <<>>
    /\ streamed_z' = <<>>
    /\ stream_i' = 0
    /\ inserts' = <<>>
    /\ thr' = <<>>
    /\ fits' = <<>>
    /\ zcalls' = <<>>

InitPipeline ==
    /\ ppc = "load"
    /\ use_db \in BOOLEAN
    /\ csv_file \in CsvFiles
    /\ raw_table = <<>>
    /\ stream_table = <<>>
    /\ thresholds_file \in {<<>>, <<NotebookThresholds>>}
    /\ train = <<>>
    /\ scalers = <<>>
    /\ train_z = <<>>
    /\ test = <<>>
    /\ test_z = <<>>
    /\ streamed = <<>>
    /\ streamed_z = <<>>
    /\ stream_i = 0
    /\ stream_chunk = chunk_size
    /\ inserts = <<>>
    /\ thr = <<>>
    /\ fits = <<>>
    /\ zcalls = <<>>
    /\ discoveries = 0
    /\ run_cfgs = <<>>
    /\ runs = 1
    /\ time_s = <<>> /\ deviation = <<>> /\ axis_name = "axis_1"
    /\ cfg = [minC |-> 1, maxC |-> 1, T |-> 0]
    /\ i = 0 /\ in_alert = FALSE /\ in_error = FALSE
    /\ alert_start = None /\ error_start = None
    /\ events = <<>> /\ flushed = <<>> /\ pc = "idle" /\ previous = <<>>

\* step 1, lines 24-42: training from RAW_TABLE, else from the CSV (seeding RAW_TABLE)
LoadTraining ==
    /\ ppc = "load"
    /\ LET from_db == IF use_db THEN read_table(raw_table) ELSE <<>> IN
       IF from_db # <<>>
       THEN train' = from_db /\ ppc' = "fit" /\ UNCHANGED raw_table
       ELSE IF csv_file = <<>>
            THEN ppc' = "RuntimeError" /\ UNCHANGED <<train, raw_table>>
            ELSE /\ train' = csv_file[1]
                 /\ raw_table' = IF use_db THEN insert_rows(raw_table, csv_file[1])
                                 ELSE raw_table
                 /\ ppc' = "fit"
    /\ UNCHANGED <<dvars, stream_chunk, inserts, use_db, csv_file, stream_table, thresholds_file, scalers,
                   train_z, test, test_z, streamed, streamed_z, stream_i, thr, fits,
                   zcalls, discoveries, run_cfgs, runs>>

\* step 2, line 45
FitScalers ==
    /\ ppc = "fit"
    /\ scalers' = <<fit_train_scalers(Project(train))>>
    /\ fits' = Append(fits, [df |-> train, stats |-> fit_train_scalers(Project(train))])
    /\ ppc' = "transform_train"
    /\ UNCHANGED <<dvars, stream_chunk, inserts, use_db, csv_file, raw_table, stream_table, thresholds_file,
                   train, train_z, test, test_z, streamed, streamed_z, stream_i, thr,
                   zcalls, discoveries, run_cfgs, runs>>

\* step 3, line 51 (step 4, the regression, keeps no state the later steps read here)
TransformTrain ==
    /\ ppc = "transform_train"
    /\ LET r == transform_zscore(train, scalers[1]) IN
         /\ train_z' = r.out
         /\ train' = r.df
         /\ scalers' = <<r.scalers>>
         /\ zcalls' = Append(zcalls, [of |-> "train", df |-> train, stats |-> scalers[1],
                                    out |-> r.out, df_after |-> r.df,
                                    stats_after |-> r.scalers])
    /\ ppc' = "generate"
    /\ UNCHANGED <<dvars, stream_chunk, inserts, use_db, csv_file, raw_table, stream_table, thresholds_file,
                   test, test_z, streamed, streamed_z, stream_i, thr, fits,
                   discoveries, run_cfgs, runs>>

\* step 5, lines 59-66: t_train.min() raises ValueError on an empty frame
GenerateSynthetic ==
    /\ ppc = "generate"
    /\ IF train = <<>>
       THEN ppc' = "ValueError" /\ UNCHANGED test
       ELSE test' = generate_synthetic(train) /\ ppc' = "transform_test"
    /\ UNCHANGED <<dvars, stream_chunk, inserts, use_db, csv_file, raw_table, stream_table, thresholds_file,
                   train, scalers, train_z, test_z, streamed, streamed_z, stream_i, thr,
                   fits, zcalls, discoveries, run_cfgs, runs>>

\* step 6, line 69
TransformTest ==
    /\ ppc = "transform_test"
    /\ LET r == transform_zscore(test, scalers[1]) IN
         /\ test_z' = r.out
         /\ test' = r.df
         /\ scalers' = <<r.scalers>>
         /\ zcalls' = Append(zcalls, [of |-> "test", df |-> test, stats |-> scalers[1],
                                    out |-> r.out, df_after |-> r.df,
                                    stats_after |-> r.scalers])
    /\ ppc' = "thresholds"
    /\ UNCHANGED <<dvars, stream_chunk, inserts, use_db, csv_file, raw_table, stream_table, thresholds_file,
                   train, train_z, streamed, streamed_z, stream_i, thr, fits,
                   discoveries, run_cfgs, runs>>

\* step 7, lines 71-90: read the thresholds file if it exists, else compute the
\* percentiles and write it; then build the RuleConfig
LoadOrDiscoverAlways ==
    /\ ppc = "thresholds"
    /\ \E all_pos \in PooledResiduals :
         /\ thr' = <<discover(all_pos)>>
         /\ thresholds_file' = <<discover(all_pos)>>
         /\ discoveries' = discoveries + 1
         /\ run_cfgs' = Append(run_cfgs, RuleConfigOf(discover(all_pos)))
    /\ ppc' = "stream"
    /\ UNCHANGED <<dvars, stream_chunk, inserts, use_db, csv_file, raw_table, stream_table, train, scalers,
                   train_z, test, test_z, streamed, streamed_z, stream_i, fits, zcalls,
                   runs>>
LoadOrDiscoverThresholds ==
    /\ ppc = "thresholds"
    /\ IF thresholds_file # <<>>
       THEN /\ thr' = <<thresholds_file[1]>>
            /\ run_cfgs' = Append(run_cfgs, RuleConfigOf(thresholds_file[1]))
            /\ UNCHANGED <<thresholds_file, discoveries>>
       ELSE \E all_pos \in PooledResiduals :
              /\ thr' = <<discover(all_pos)>>
              /\ thresholds_file' = <<discover(all_pos)>>
              /\ discoveries' = discoveries + 1
              /\ run_cfgs' = Append(run_cfgs, RuleConfigOf(discover(all_pos)))
    /\ ppc' = "stream"
    /\ UNCHANGED <<dvars, stream_chunk, inserts, use_db, csv_file, raw_table, stream_table, train, scalers,
                   train_z, test, test_z, streamed, streamed_z, stream_i, fits, zcalls,
                   runs>>

\* streamer.py line 18: df.iloc[i:i+chunk_size], rows i .. i+chunk_size-1 (0-based),
\* cut at the end of df
ilocPastEnd(df, k, size) ==
    SubSeq(df, k + 1, IF k + size + 1 < Len(df) THEN k + size + 1 ELSE Len(df))
iloc(df, k, size) ==
    SubSeq(df, k + 1, IF k + size < Len(df) THEN k + size ELSE Len(df))

\* step 8, line 94 and streamer.py lines 16-19: one chunk of the test data inserted
StreamChunk ==
    /\ ppc = "stream"
    /\ use_db
    /\ stream_i < Len(test)
    /\ stream_table' = insert_rows(stream_table, iloc(test, stream_i, stream_chunk))
    /\ inserts' = Append(inserts, iloc(test, stream_i, stream_chunk))
    /\ stream_i' = stream_i + stream_chunk
    /\ UNCHANGED <<dvars, ppc, stream_chunk, use_db, csv_file, raw_table, thresholds_file, train,
                   scalers, train_z, test, test_z, streamed, streamed_z, thr, fits,
                   zcalls, discoveries, run_cfgs, runs>>

\* lines 93-97: the streamed data is queried back (or is a copy of the test data)
ReadBack ==
    /\ ppc = "stream"
    /\ IF use_db
       THEN stream_i >= Len(test) /\ streamed' = read_table(stream_table)
       ELSE streamed' = test
    /\ ppc' = "transform_streamed"
    /\ UNCHANGED <<dvars, stream_chunk, inserts, use_db, csv_file, raw_table, stream_table, thresholds_file,
                   train, scalers, train_z, test, test_z, streamed_z, stream_i, thr,
                   fits, zcalls, discoveries, run_cfgs, runs>>

\* line 99; the detection and the logging that follow (lines 101-120) end the run
TransformStreamed ==
    /\ ppc = "transform_streamed"
    /\ LET r == transform_zscore(streamed, scalers[1]) IN
         /\ streamed_z' = r.out
         /\ streamed' = r.df
         /\ scalers' = <<r.scalers>>
         /\ zcalls' = Append(zcalls, [of |-> "streamed", df |-> streamed, stats |-> scalers[1],
                                    out |-> r.out, df_after |-> r.df,
                                    stats_after |-> r.scalers])
    /\ ppc' = "done"
    /\ UNCHANGED <<dvars, stream_chunk, inserts, use_db, csv_file, raw_table, stream_table, thresholds_file,
                   train, train_z, test, test_z, stream_i, thr, fits,
                   discoveries, run_cfgs, runs>>

\* main() is run again, on the same files and database; the training CSV may have
\* been replaced in between
NewRun ==
    /\ ppc = "done"
    /\ runs < MaxRuns
    /\ runs' = runs + 1
    /\ csv_file' \in CsvFiles
    /\ RunLocals0
    /\ ppc' = "load"
    /\ UNCHANGED <<dvars, stream_chunk, use_db, raw_table, stream_table, thresholds_file,
                   discoveries, run_cfgs>>

NextPipeline ==
    \/ LoadTraining \/ FitScalers \/ TransformTrain \/ GenerateSynthetic
    \/ TransformTest \/ LoadOrDiscoverThresholds \/ StreamChunk \/ ReadBack
    \/ TransformStreamed \/ NewRun

SpecPipeline == InitPipeline /\ [][NextPipeline]_vars

\* ------------------------------------------------------------------ the streamer
\* stream_dataframe_to_db(df, STREAM_TABLE, ..., chunk_size, sleep_s) called on any
\* dataframe with any chunk_size >= 1, followed by the read-back of the table.
\* df is held in test.  Rows may repeat and time need not be ordered.
MaxStream == 3       \* most rows of a streamed dataframe
MaxChunk == 3        \* largest chunk_size argument
StreamRows == [time_s : TimeVals, axis_1 : AxisVals, z : {<<>>}]
StreamFrames == UNION {SeqsOf(StreamRows, n) : n \in 0 .. MaxStream}

\* rows the table holds from earlier calls
EarlierRows == <<[time_s |-> 0, axis_1 |-> 0, z |-> <<>>]>>

InitStreamer ==
    /\ ppc = "stream"
    /\ use_db = TRUE
    /\ csv_file = <<>>
    /\ raw_table = <<>>
    /\ stream_table \in {<<>>, insert_rows(<<>>, EarlierRows)}
    /\ thresholds_file = <<>>
    /\ train = <<>>
    /\ scalers = <<>>
    /\ train_z = <<>>
    /\ test \in StreamFrames
    /\ test_z = <<>>
    /\ streamed = <<>>
    /\ streamed_z = <<>>
    /\ stream_i = 0
    /\ stream_chunk \in 1 .. MaxChunk
    /\ inserts = <<>>
    /\ thr = <<>>
    /\ fits = <<>>
    /\ zcalls = <<>>
    /\ discoveries = 0
    /\ run_cfgs = <<>>
    /\ runs = 1
    /\ time_s = <<>> /\ deviation = <<>> /\ axis_name = "axis_1"
    /\ cfg = [minC |-> 1, maxC |-> 1, T |-> 0]
    /\ i = 0 /\ in_alert = FALSE /\ in_error = FALSE
    /\ alert_start = None /\ error_start = None
    /\ events = <<>> /\ flushed = <<>> /\ pc = "idle" /\ previous = <<>>

NextStreamer == StreamChunk \/ ReadBack

SpecStreamer == InitStreamer /\ [][NextStreamer]_vars

\* ------------------------------------------------------------------ reference notions
\* (written from the claims, independently of the operators above)
N == Len(time_s)
Returned == pc = "returned"
NonDecreasing(t) == \A k \in 1 .. (Len(t) - 1) : t[k] <= t[k + 1]

\* the membership predicate of a severity under thresholds (lo, hi)
InBand(kind, d, lo, hi) ==
    IF kind = "ERROR" THEN d >= hi ELSE lo <= d /\ d < hi

\* [s, e] (0-based, inclusive) is a maximal contiguous range of members of `kind`
MaximalRun(kind, dev, n, s, e, lo, hi) ==
    /\ 0 <= s /\ s <= e /\ e < n
    /\ \A k \in s .. e : InBand(kind, dev[k + 1], lo, hi)
    /\ (s > 0 => ~InBand(kind, dev[s], lo, hi))
    /\ (e < n - 1 => ~InBand(kind, dev[e + 2], lo, hi))

Kinds == {"ERROR", "ALERT"}

\* the maximal runs that last at least T
ReferenceRuns(t, dev, lo, hi, T) ==
    UNION {{[kind |-> kind, start_idx |-> s, end_idx |-> e] :
              e \in {x \in s .. (Len(t) - 1) :
                       /\ MaximalRun(kind, dev, Len(t), s, x, lo, hi)
                       /\ t[x + 1] - t[s + 1] >= T}} :
           kind \in Kinds, s \in 0 .. (Len(t) - 1)}


\* the event at position k was closed by the tail flush / by a failing sample
ClosedByTail(k) == flushed[k].end_idx = N - 1 /\ i >= N /\ Returned
    /\ InBand(flushed[k].kind, deviation[N], cfg.minC, cfg.maxC)

\* ------------------------------------------------------------------ claims

\* C1: every event in the list, whether closed by a failing sample or by the tail
\* flush, spans at least T (end_time - start_time >= T) and its duration_s is that span.
C1_DurationFilter ==
    \A k \in 1 .. Len(events) :
        /\ events[k].end_time - events[k].start_time >= cfg.T
        /\ events[k].duration_s = events[k].end_time - events[k].start_time

\* C1 witness: a returned list with one event closed by a failing sample and one
\* closed by the tail flush
C1_Witness ==
    /\ Returned /\ Len(time_s) = Len(deviation)
    /\ \E a, b \in 1 .. Len(events) : ~ClosedByTail(a) /\ ClosedByTail(b)

\* C2: with minC <= maxC and non-decreasing time, the returned list is exactly the
\* reference set of maximal runs lasting at least T: one event per such run, with
\* start_time = time[s] and end_time = time[e], no other event, none twice.
C2_ExactlyMaximalRuns ==
    (Returned /\ cfg.minC <= cfg.maxC /\ NonDecreasing(time_s)) =>
        LET Ref == ReferenceRuns(time_s, deviation, cfg.minC, cfg.maxC, cfg.T) IN
        /\ Range(flushed) = Ref
        /\ Len(flushed) = Cardinality(Ref)
        /\ Len(events) = Len(flushed)
        /\ \A k \in 1 .. Len(events) :
              /\ events[k].event_type = flushed[k].kind
              /\ events[k].start_time = time_s[flushed[k].start_idx + 1]
              /\ events[k].end_time = time_s[flushed[k].end_idx + 1]

\* C2 witness: a returned call under T > 0 that reports one run and drops another,
\* shorter, maximal run
C2_Witness ==
    /\ Returned /\ cfg.T > 0 /\ cfg.minC <= cfg.maxC /\ NonDecreasing(time_s)
    /\ Len(events) > 0
    /\ ReferenceRuns(time_s, deviation, cfg.minC, cfg.maxC, 0)
          # ReferenceRuns(time_s, deviation, cfg.minC, cfg.maxC, cfg.T)

\* the samples an event covers, from the indices its flush_event call was given
Covered(k) == {deviation[j + 1] : j \in flushed[k].start_idx .. flushed[k].end_idx}

\* C3: every sample covered by an ALERT event satisfies minC <= deviation < maxC and
\* every sample covered by an ERROR event satisfies deviation >= maxC; a sample equal
\* to maxC counts toward ERROR only, and a sequence that stays at or above maxC
\* yields no ALERT event.
C3_BandsOfCoveredSamples ==
    /\ Len(events) = Len(flushed)
    /\ \A k \in 1 .. Len(events) :
          /\ events[k].event_type = flushed[k].kind
          /\ events[k].event_type = "ALERT" =>
                \A d \in Covered(k) : cfg.minC <= d /\ d < cfg.maxC
          /\ events[k].event_type = "ERROR" =>
                \A d \in Covered(k) : d >= cfg.maxC
    /\ (Returned /\ \A j \in 1 .. N : deviation[j] >= cfg.maxC) =>
          \A k \in 1 .. Len(events) : events[k].event_type # "ALERT"

\* C3 witness: an ALERT event followed at once by an ERROR event whose first sample
\* equals maxC
C3_Witness ==
    /\ Returned
    /\ \E a, b \in 1 .. Len(events) :
          /\ events[a].event_type = "ALERT" /\ events[b].event_type = "ERROR"
          /\ flushed[b].start_idx = flushed[a].end_idx + 1
          /\ deviation[flushed[b].start_idx + 1] = cfg.maxC

\* the greatest deviation over indices s .. e (0-based, inclusive)
MaxDevOver(s, e) ==
    CHOOSE m \in {deviation[j + 1] : j \in s .. e} :
        \A j \in s .. e : deviation[j + 1] <= m

\* the event a run [s, e] of `kind` is to be reported as
RefEvent(kind, s, e) ==
    [axis_name |-> axis_name,
     event_type |-> kind,
     start_time |-> time_s[s + 1],
     end_time |-> time_s[e + 1],
     duration_s |-> time_s[e + 1] - time_s[s + 1],
     threshold |-> IF kind = "ERROR" THEN cfg.maxC ELSE cfg.minC,
     max_deviation |-> MaxDevOver(s, e)]

\* what the tail flush is to append for a track: the event of [start, last] when the
\* track is in a run that lasts at least T, nothing otherwise
TailEvents(kind, in_run, start) ==
    IF in_run /\ time_s[N] - time_s[start + 1] >= cfg.T
    THEN <<RefEvent(kind, start, N - 1)>> ELSE <<>>

\* C4: a track still in a run after the last sample is closed with the last index as
\* its end, and its event is appended exactly when time[last] - time[start] >= T, with
\* the fields of any other event; no trailing non-member sample is needed.
C4_TailFlush ==
    [][(pc = "loop" /\ pc' = "returned") =>
         events' = events \o TailEvents("ERROR", in_error, error_start)
                          \o TailEvents("ALERT", in_alert, alert_start)]_vars

\* C4 witness: a returned call under T > 0 whose last sample is a member and whose
\* last event ends at the last index
C4_Witness ==
    /\ Returned /\ cfg.T > 0 /\ (in_error \/ in_alert)
    /\ Len(events) > 0 /\ flushed[Len(flushed)].end_idx = N - 1

\* C9: every ERROR event carries threshold = maxC, every ALERT event threshold = minC,
\* and max_deviation is the greatest deviation from the start index to the end index
\* inclusive (the closing non-member sample excluded).
C9_ThresholdAndMaxDeviation ==
    /\ Len(events) = Len(flushed)
    /\ \A k \in 1 .. Len(events) :
          /\ events[k].event_type = flushed[k].kind
          /\ events[k].threshold =
                (IF events[k].event_type = "ERROR" THEN cfg.maxC ELSE cfg.minC)
          /\ events[k].max_deviation = MaxDevOver(flushed[k].start_idx, flushed[k].end_idx)

\* C9 witness: an ALERT event closed by a sample above everything it covers, whose
\* last sample is not its greatest
C9_Witness ==
    \E k \in 1 .. Len(events) :
        /\ events[k].event_type = "ALERT"
        /\ flushed[k].end_idx < N - 1
        /\ deviation[flushed[k].end_idx + 2] > events[k].max_deviation
        /\ deviation[flushed[k].end_idx + 1] < events[k].max_deviation

\* a track in a run holds, as its start, the first index of the stretch of members
\* that ends at the sample processed last (index i - 1)
StartsOwnRun(kind, in_run, start) ==
    in_run =>
        /\ 0 <= start /\ start <= i - 1
        /\ \A j \in start .. (i - 1) : InBand(kind, deviation[j + 1], cfg.minC, cfg.maxC)
        /\ (start > 0 => ~InBand(kind, deviation[start], cfg.minC, cfg.maxC))

\* one track's part of C10 across the step that processes sample i
DiscardsShortRun(kind, in_run, start, in_run_next, start_next) ==
    LET member == InBand(kind, deviation[i + 1], cfg.minC, cfg.maxC) IN
    /\ (in_run /\ ~member /\ time_s[i] - time_s[start + 1] < cfg.T) =>
          /\ \A k \in 1 .. Len(events') : k > Len(events) => events'[k].event_type # kind
          /\ ~in_run_next
          /\ start_next = None
    /\ (~in_run /\ member) => (in_run_next /\ start_next = i)

\* C10: a run whose span is below T is closed without appending an event of its
\* track, and the track returns to IDLE with its start cleared; the next run starts at
\* its own first member sample, so no later event begins at a dropped run's start.
C10_ShortRunDiscarded ==
    [][(pc = "loop" /\ pc' = "loop") =>
         /\ DiscardsShortRun("ERROR", in_error, error_start, in_error', error_start')
         /\ DiscardsShortRun("ALERT", in_alert, alert_start, in_alert', alert_start')
         /\ StartsOwnRun("ERROR", in_error, error_start)'
         /\ StartsOwnRun("ALERT", in_alert, alert_start)'
         /\ \A k \in 1 .. Len(flushed') :
               MaximalRun(flushed'[k].kind, deviation, N, flushed'[k].start_idx,
                          flushed'[k].end_idx, cfg.minC, cfg.maxC)]_vars

\* C10 witness: an event of a track that follows an earlier, dropped run of the
\* same track
C10_Witness ==
    /\ Returned /\ cfg.T > 0
    /\ \E k \in 1 .. Len(flushed) : \E s, e \in 0 .. (N - 1) :
          /\ MaximalRun(flushed[k].kind, deviation, N, s, e, cfg.minC, cfg.maxC)
          /\ e < flushed[k].start_idx
          /\ time_s[e + 1] - time_s[s + 1] < cfg.T

\* C5 as claimed: a call whose time and deviation sequences differ in length, in
\* either direction, never returns an event list.
C5_FailsFastOnLengthMismatch ==
    Len(time_s) # Len(deviation) => pc # "returned"

\* C6 as claimed: under a RuleConfig with minC > maxC or T < 0 no sample is processed,
\* no event is produced and the call does not return normally.
C6_RejectsInvalidConfig ==
    (cfg.minC > cfg.maxC \/ cfg.T < 0) =>
        (i = 0 /\ events = <<>> /\ pc # "returned")

\* what a second call on the same sequences returns under another RuleConfig
EventsUnder(c) == detect_events_for_axis(time_s, deviation, axis_name, c).L.events
FlushedUnder(c) == detect_events_for_axis(time_s, deviation, axis_name, c).L.flushed

OfKind(evs, kind) == SelectSeq(evs, LAMBDA ev : ev.event_type = kind)
AlertSpans(fl) == {fl[k] : k \in {j \in 1 .. Len(fl) : fl[j].kind = "ALERT"}}

\* a is b with some elements left out
RECURSIVE IsSubList(_, _)
IsSubList(a, b) ==
    IF a = <<>> THEN TRUE
    ELSE IF b = <<>> THEN FALSE
    ELSE IF Head(a) = Head(b) THEN IsSubList(Tail(a), Tail(b))
    ELSE IsSubList(a, Tail(b))

\* C7 as claimed: with the sequences, maxC and T fixed, a call under a larger
\* minC2 (minC <= minC2 <= maxC) returns no more ALERT events than the call under minC.
C7_RaisingMinCNeverAddsAlerts ==
    Returned =>
        \A minC2 \in Thresholds :
            (cfg.minC <= minC2 /\ minC2 <= cfg.maxC) =>
                Len(OfKind(EventsUnder([cfg EXCEPT !.minC = minC2]), "ALERT"))
                    <= Len(OfKind(events, "ALERT"))

\* C7 as amended: for non-decreasing time, every ALERT event of the call under minC2
\* covers an index range that lies inside the range of one ALERT event of the call
\* under minC (raising minC may split one run into several, never widen one).
C7_RaisedMinCAlertsLieInside ==
    (Returned /\ NonDecreasing(time_s)) =>
        \A minC2 \in Thresholds :
            (cfg.minC <= minC2 /\ minC2 <= cfg.maxC) =>
                \A r2 \in AlertSpans(FlushedUnder([cfg EXCEPT !.minC = minC2])) :
                    \E r1 \in AlertSpans(flushed) :
                        r1.start_idx <= r2.start_idx /\ r2.end_idx <= r1.end_idx

\* C7 witness: raising minC splits one ALERT event into two
C7_Witness ==
    /\ Returned /\ NonDecreasing(time_s) /\ Len(OfKind(events, "ALERT")) = 1
    /\ \E minC2 \in Thresholds :
          /\ cfg.minC < minC2 /\ minC2 <= cfg.maxC
          /\ Len(OfKind(EventsUnder([cfg EXCEPT !.minC = minC2]), "ALERT")) = 2

\* C8: with the sequences, minC and maxC fixed and 0 <= T <= T2, the events of the call
\* under T2 are a sub-list of the events of the call under T, so that neither the
\* number of ERROR events nor the number of ALERT events grows.
C8_RaisingTNeverAddsEvents ==
    (Returned /\ Len(time_s) = Len(deviation) /\ cfg.T >= 0) =>
        \A T2 \in Durations :
            cfg.T <= T2 =>
                LET events2 == EventsUnder([cfg EXCEPT !.T = T2]) IN
                /\ IsSubList(events2, events)
                /\ Len(OfKind(events2, "ERROR")) <= Len(OfKind(events, "ERROR"))
                /\ Len(OfKind(events2, "ALERT")) <= Len(OfKind(events, "ALERT"))

\* C8 witness: raising T drops one of two events and keeps the other
C8_Witness ==
    /\ Returned /\ Len(time_s) = Len(deviation) /\ cfg.T >= 0 /\ Len(events) = 2
    /\ \E T2 \in Durations :
          cfg.T < T2 /\ Len(EventsUnder([cfg EXCEPT !.T = T2])) = 1

\* C11: the returned events are in the order in which their runs close: each was
\* closed at a later index than the one before it, so that under non-decreasing time
\* end_time is non-decreasing along the list, across both severities.
C11_EventsInClosingOrder ==
    (Len(events) = Len(flushed) /\ NonDecreasing(time_s)) =>
        \A k \in 1 .. (Len(events) - 1) :
            /\ flushed[k].end_idx < flushed[k + 1].end_idx
            /\ events[k].end_time <= events[k + 1].end_time

\* C11 witness: an ALERT event followed by an ERROR event with a later end_time
C11_Witness ==
    /\ Returned /\ Len(events) = 2
    /\ events[1].event_type = "ALERT" /\ events[2].event_type = "ERROR"
    /\ events[1].end_time < events[2].end_time

\* C12: with minC <= maxC, after a sample is processed the tracks are set by that
\* sample alone: below minC both are IDLE, in [minC, maxC) only ALERT is in a run, at
\* or above maxC only ERROR is; the two tracks are never in a run together.
C12_TracksFollowLastSample ==
    (i >= 1 /\ i <= Len(deviation) /\ cfg.minC <= cfg.maxC) =>
        LET d == deviation[i] IN
        /\ d < cfg.minC => (~in_alert /\ ~in_error)
        /\ (cfg.minC <= d /\ d < cfg.maxC) => (in_alert /\ ~in_error)
        /\ d >= cfg.maxC => (in_error /\ ~in_alert)
        /\ ~(in_alert /\ in_error)

\* C12 witness: the three situations in a row, ERROR band, then ALERT band, then
\* below minC, the last one reached with both tracks idle
C12_Witness ==
    /\ pc = "loop" /\ i = 3 /\ ~in_alert /\ ~in_error
    /\ deviation[1] >= cfg.maxC
    /\ cfg.minC <= deviation[2] /\ deviation[2] < cfg.maxC
    /\ deviation[3] < cfg.minC

\* C18 as claimed: under T > 0 and minC <= maxC, every contiguous stretch of samples
\* with deviation >= minC whose span is at least T is overlapped by some returned
\* event, also when the deviation crosses maxC inside the stretch.
C18_SustainedExcursionDetected ==
    (Returned /\ cfg.T > 0 /\ cfg.minC <= cfg.maxC) =>
        \A s, e \in 0 .. (N - 1) :
            (/\ s <= e
             /\ \A j \in s .. e : deviation[j + 1] >= cfg.minC
             /\ time_s[e + 1] - time_s[s + 1] >= cfg.T) =>
                \E k \in 1 .. Len(flushed) :
                    flushed[k].start_idx <= e /\ s <= flushed[k].end_idx

\* C20: any two returned events cover disjoint index ranges, and two events of the
\* same severity have between them a sample that is no member of that severity.
C20_EventsDisjoint ==
    \A a, b \in 1 .. Len(flushed) :
        a < b =>
            /\ (flushed[a].end_idx < flushed[b].start_idx
                  \/ flushed[b].end_idx < flushed[a].start_idx)
            /\ flushed[a].kind = flushed[b].kind =>
                  \E j \in (flushed[a].end_idx + 1) .. (flushed[b].start_idx - 1) :
                      ~InBand(flushed[a].kind, deviation[j + 1], cfg.minC, cfg.maxC)

\* C20 witness: two ERROR events one sample apart, and an ALERT event that starts
\* right after the second
C20_Witness ==
    /\ Returned /\ Len(flushed) = 3
    /\ flushed[1].kind = "ERROR" /\ flushed[2].kind = "ERROR" /\ flushed[3].kind = "ALERT"
    /\ flushed[2].start_idx = flushed[1].end_idx + 2
    /\ flushed[3].start_idx = flushed[2].end_idx + 1

\* C16: on equal-length sequences of any length (0 included) under a valid RuleConfig
\* the call is a single forward pass that ends: until it has returned it is in the
\* loop with a step to take (sample i is there to be processed, or every sample has
\* been visited and the tail flush yields the list), every step either processes
\* sample i and moves on to i + 1 or returns the list, and no step raises.
C16_SinglePassTerminates ==
    /\ [](\/ pc = "returned"
          \/ /\ pc = "loop"
             /\ i <= N
             /\ i <= Len(deviation)
             /\ IF i < N
                THEN /\ i < Len(deviation)
                     /\ IsSubList(events,
                                  LoopBody(time_s, deviation, axis_name, cfg, Locals, i).events)
                ELSE IsSubList(events,
                               FinalizeTail(time_s, deviation, axis_name, cfg, Locals).events))
    /\ [][/\ pc = "loop"
          /\ \/ (pc' = "loop" /\ i < N /\ i' = i + 1)
             \/ (pc' = "returned" /\ i = N /\ i' = i)]_vars

\* C16 witness: a call on the longest sequences has returned a non-empty list
C16_Witness ==
    Returned /\ N = MaxLen /\ i = N /\ events # <<>>

\* C17: a second call on the same time sequence, deviation sequence, axis name and
\* RuleConfig returns the list the first call returned: same events, same field
\* values, same order; nothing of the first call is left for the second.
C17_SecondCallReturnsSameList ==
    /\ (Returned /\ previous # <<>>) => events = previous[1]
    /\ (pc = "loop" /\ i = 0) =>
          (events = <<>> /\ ~in_alert /\ ~in_error
             /\ alert_start = None /\ error_start = None)

\* C17 witness: the second call has returned, with two events in its list
C17_Witness ==
    Returned /\ previous # <<>> /\ Len(events) = 2


\* ------------------------------------------------------------------ pipeline claims
\* C15: fitting the scalers on an empty reference dataset fails with an error and
\* returns no statistics: no run ever holds scaler statistics fitted on an empty
\* training dataset.
C15_EmptyFitFails ==
    \A k \in 1 .. Len(fits) : fits[k].df = <<>> => scalers = <<>>

\* C19: in database mode the dataset queried back from STREAM_TABLE is exactly the
\* synthetic test dataset streamed in this run, row for row and in order, and so has
\* non-decreasing time, in a first run and in every later one.
C19_ReadBackIsThisRunsTest ==
    (use_db /\ ppc = "transform_streamed") =>
        /\ Project(streamed) = test
        /\ \A k \in 1 .. (Len(streamed) - 1) : streamed[k].time_s <= streamed[k + 1].time_s

\* C13: thresholds are discovered at most once over all runs: once the thresholds
\* file exists no step changes it or computes percentiles again, and every run that
\* has built its RuleConfig built it from the MinC, MaxC and T of the file, so all
\* runs score with the same RuleConfig.
C13_DiscoveryAtMostOnce ==
    /\ [](/\ discoveries <= 1
          /\ \A k \in 1 .. Len(run_cfgs) :
               /\ thresholds_file # <<>>
               /\ run_cfgs[k] = RuleConfigOf(thresholds_file[1])
               /\ run_cfgs[k] = run_cfgs[1])
    /\ [][thresholds_file # <<>> =>
             (thresholds_file' = thresholds_file /\ discoveries' = discoveries)]_vars
C13_Witness ==
    /\ runs = MaxRuns
    /\ Len(run_cfgs) = runs
    /\ discoveries = 1
    /\ run_cfgs[1].minC < run_cfgs[1].maxC

\* C14: in a run the scalers are fitted once, on the training dataset; each z-score
\* transform of the run (training, test, streamed data) uses exactly the fitted
\* statistics; and a transform leaves the statistics and the dataset it was given as
\* they were, its result being another dataset.
C14_FitOnceAndFrozen ==
    /\ Len(fits) <= 1
    /\ (ppc \notin {"load", "fit", "RuntimeError"}) =>
          (Len(fits) = 1 /\ fits[1].df = train /\ scalers = <<fits[1].stats>>)
    /\ \A k \in 1 .. Len(zcalls) :
          LET z == zcalls[k] IN
            /\ z.stats = fits[1].stats
            /\ z.stats_after = z.stats
            /\ z.df_after = z.df
            /\ Len(z.out) = Len(z.df)
            /\ \A j \in 1 .. Len(z.df) :
                 /\ z.df[j].z = <<>>
                 /\ z.out[j].z = <<[mean |-> fits[1].stats.mean, std |-> fits[1].stats.std]>>
                 /\ z.out[j].axis_1 = z.df[j].axis_1
                 /\ z.out[j].time_s = z.df[j].time_s
    /\ (ppc = "done") =>
          (/\ [k \in 1 .. Len(zcalls) |-> zcalls[k].of] = <<"train", "test", "streamed">>
           /\ zcalls[1].df = train /\ zcalls[1].out = train_z
           /\ zcalls[2].df = test /\ zcalls[2].out = test_z
           /\ zcalls[3].df = streamed /\ zcalls[3].out = streamed_z)
C14_Witness ==
    /\ ppc = "done"
    /\ runs = MaxRuns
    /\ use_db
    /\ Len(zcalls) = 3
    /\ Len(streamed) > Len(test)
    /\ ~fits[1].stats.std.eps

\* ------------------------------------------------------------------ streamer claim
RECURSIVE Flatten(_)
Flatten(chunks) == IF chunks = <<>> THEN <<>> ELSE Head(chunks) \o Flatten(Tail(chunks))
Smaller(a, b) == IF a < b THEN a ELSE b

\* the loop of stream_dataframe_to_db is exhausted
StreamDone == stream_i >= Len(test)

\* C21: for chunk_size >= 1 the inserts of stream_dataframe_to_db are consecutive,
\* non-overlapping chunks of 1 to chunk_size rows taken in ascending row order, one
\* insert_rows call per chunk, each call appending exactly its chunk to the table;
\* when the loop is done every row of the dataframe has been inserted exactly once,
\* in its original order, behind the rows the table held before, and an empty
\* dataframe has caused no insert.
C21_ChunksInOrderExactlyOnce ==
    /\ [](LET n == Len(test)
              c == stream_chunk
          IN  /\ Len(inserts) * c = stream_i
              /\ \A j \in 1 .. Len(inserts) :
                   /\ Len(inserts[j]) = Smaller(j * c, n) - (j - 1) * c
                   /\ Len(inserts[j]) >= 1
                   /\ Len(inserts[j]) <= c
                   /\ \A k \in 1 .. Len(inserts[j]) : inserts[j][k] = test[(j - 1) * c + k]
              /\ \A k \in 1 .. Len(stream_table) : stream_table[k].id = k
              /\ StreamDone =>
                   /\ Flatten(inserts) = test
                   /\ Len(inserts) = (n + c - 1) \div c
                   /\ n = 0 => inserts = <<>>
                   /\ Len(stream_table) >= n
                   /\ Project(SubSeq(stream_table, Len(stream_table) - n + 1,
                                     Len(stream_table))) = test
              /\ ppc = "transform_streamed" => streamed = stream_table)
    /\ [][\/ (stream_table' = stream_table /\ inserts' = inserts)
          \/ /\ Len(inserts') = Len(inserts) + 1
             /\ SubSeq(inserts', 1, Len(inserts)) = inserts
             /\ Len(stream_table') = Len(stream_table) + Len(inserts'[Len(inserts')])
             /\ SubSeq(stream_table', 1, Len(stream_table)) = stream_table
             /\ Project(SubSeq(stream_table', Len(stream_table) + 1, Len(stream_table')))
                   = inserts'[Len(inserts')]]_vars

\* C21 witness: a dataframe of the most rows, holding the same row twice, has been
\* streamed in two chunks, the second one short, into a table that held rows before,
\* and has been read back
C21_Witness ==
    /\ ppc = "transform_streamed"
    /\ Len(test) = MaxStream
    /\ test[1] = test[2]
    /\ stream_chunk = MaxChunk - 1
    /\ Len(inserts) = 2
    /\ Len(inserts[2]) < stream_chunk
    /\ Len(stream_table) > Len(test)

====
